---- MODULE Spec2Model ----
(***************************************************************************)
(* Script registry and hot-swap subsystem of ScriptMgr.cpp: the database   *)
(* bound and unbound registries (SpecializedScriptRegistry<ScriptType, b>),*)
(* their swap hooks, the ScriptRegistryCompositum with its delayed-delete  *)
(* queue and script-name map, the replay of the after-load scripts, and    *)
(* the ScriptMgr context calls that drive them.                            *)
(***************************************************************************)
EXTENDS Integers, Sequences, FiniteSets, Bags, TLC

(* ------------------------------ bounds --------------------------------- *)

\* Number of script objects constructed in one run (each construction calls
\* AddScript once, from the script's constructor).
MaxScripts == 2

\* Number of script objects constructed in a run that spawns no creature.
MaxStartupScripts == 3

\* Number of script objects constructed in a run over the scripts of every
\* hooked category.
MaxHookedScripts == 2

(* --------------------------- fixed universe ---------------------------- *)

\* Script contexts that are loaded and released ("a module name").
Contexts == {"mod1", "mod2"}

\* std::string::clear() of ScriptMgr::_currentContext: no context is open.
NoContext == ""

\* Database bound script categories with a registry of their own:
\* ScriptRegistry<CreatureScript>, which carries the entity-attachment hook,
\* and the registries of the categories with the rejecting hook
\* (BattlegroundScript), the hook restarting a manager (OutdoorPvPScript)
\* and the hooks holding a flag (InstanceMapScript, SpellScriptLoader).
Categories ==
    {"Creature", "Battleground", "OutdoorPvP", "InstanceMap",
     "SpellScriptLoader"}

\* Script categories without is_script_database_bound: ScriptRegistry<
\* WorldMapScript>, with the default (empty) swap hooks, which LoadDatabase
\* replays like the bound ones, and ScriptRegistry<CommandScript>, whose
\* hook invalidates the command table.
UnboundCategories == {"WorldMap", "Command"}

AllCategories == Categories \cup UnboundCategories

\* The categories whose scripts the world of creatures is checked with.
CoreCategories == {"Creature", "WorldMap"}

\* The categories whose hook keeps a flag "swapped".
SwappedCategories == {"OutdoorPvP", "InstanceMap", "SpellScriptLoader"}

\* Script names used by the constructed scripts.
Names == {"A", "B", "X"}

\* Names of the scripts constructed per category; the name of an unbound
\* script plays no part in its registration.
NamesOf(cat) ==
    CASE cat = "Creature" -> Names
      [] cat = "Battleground" -> {"BG"}
      [] cat = "OutdoorPvP" -> {"PVP"}
      [] cat = "InstanceMap" -> {"INST"}
      [] cat = "SpellScriptLoader" -> {"SPELL"}
      [] cat = "Command" -> {"CMD"}
      [] OTHER -> {"W"}

\* sObjectMgr->GetScriptId(name) yields 0 for a name the database assigns to
\* nothing (the else branch of AddScript).
NoId == 0

\* sObjectMgr->GetScriptId: the identifier table, one id per assigned name.
GetScriptId(name) ==
    CASE name = "A" -> 1
      [] name = "B" -> 2
      [] name = "BG" -> 3
      [] name = "PVP" -> 4
      [] name = "INST" -> 5
      [] name = "SPELL" -> 6
      [] OTHER -> NoId

Ids == {GetScriptId(n) : n \in UNION {NamesOf(c) : c \in Categories}} \ {NoId}

\* nullptr of a ScriptType*.
NullPtr == 0

\* Live simulation entities (creatures) the world can hold.
Entities == {"E1", "E2"}

\* Creature::GetScriptId(): the script id the content table assigns.
EntityScriptId(e) == IF e = "E1" THEN GetScriptId("A") ELSE GetScriptId("B")

\* object->GetGUID().IsEmpty(): E2 is an object not yet given a guid.
GuidIsEmpty(e) == e = "E2"

(* ------------------------------- state --------------------------------- *)

VARIABLES
    status,                \* "running", or why the process stopped
    build,                 \* are ABORT/ABORT_MSG fatal in this build: known
                           \* once the first one is reached
    currentContext,        \* ScriptMgr::_currentContext
    heap,                  \* per address: the script object last
                           \* constructed there
    constructed,           \* history: number of scripts constructed
    registries,            \* ScriptRegistryCompositum::_registries
    scripts,               \* per category: _scripts (id -> unique_ptr)
    unboundScripts,        \* per unbound category: _scripts (multimap
                           \* context -> unique_ptr)
    idsOfContexts,         \* per category: _ids_of_contexts (multimap)
    recentlyAdded,         \* per category: _recently_added_ids
    alScripts,             \* per category: _alScripts (raw pointers)
    delayedDeleteQueue,    \* ScriptRegistryCompositum::_delayed_delete_queue
    scriptnamesToContext,  \* ScriptRegistryCompositum::_scriptnames_to_context
    idsRemoved,            \* creature hook: ids_removed_
    swapped,               \* per flag-keeping hook: swapped
    outdoorPvPMgr,         \* sOutdoorPvPMgr: "initialized" or "dead"
    commandTable,          \* ChatHandler's command table: "loaded" or
                           \* "invalidated"
    world,                 \* entities in the maps' object stores
    ai,                    \* per entity: the attached behaviour
    sinceSwap,             \* history: the SwapContext calls made since the
                           \* last AddScript or ReleaseContext
    found,                 \* what the lookup or query made in the last
                           \* step returned, << >> if it returned nothing
    unit,                  \* per entity: is the creature alive, is it
                           \* charmed
    calls                  \* per entity and per manager: the calls the
                           \* last step made on it, in order

vars == <<status, build, currentContext, heap, constructed, registries,
          scripts,
          unboundScripts, idsOfContexts, recentlyAdded, alScripts,
          delayedDeleteQueue, scriptnamesToContext, idsRemoved, swapped,
          outdoorPvPMgr, commandTable, world, ai, sinceSwap, found,
          unit, calls>>

registryVars == <<scripts, unboundScripts, idsOfContexts, recentlyAdded,
                  alScripts>>
worldVars == <<world, ai>>
hookVars == <<swapped, outdoorPvPMgr, commandTable>>

(* ------------------------------ helpers -------------------------------- *)

Running == status = "running"

\* A script object: its name, IsAfterLoadDB(), whether it is still allocated,
\* and (history) the context it was registered under.
ScriptObject(name, al) ==
    [name |-> name, al |-> al, live |-> TRUE, ctx |-> NoContext]

\* ~ScriptObject through a unique_ptr going out of scope or being erased.
Destroy(h, ptrs) ==
    [p \in DOMAIN h |-> IF p \in ptrs THEN [h[p] EXCEPT !.live = FALSE] ELSE h[p]]

\* A delete of these pointers (given with repetition) frees something twice:
\* a script already destroyed, or one script through two owners.
DoubleFree(h, pointers) ==
    \/ \E i \in DOMAIN pointers : ~h[pointers[i]].live
    \/ \E i, j \in DOMAIN pointers : i # j /\ pointers[i] = pointers[j]

\* The outcomes of a step that ran into undefined behaviour: unnoticed, or
\* the end of the process.
StatusAfter(ub) == IF ub THEN {"running", "undefined_behaviour"} ELSE {"running"}

NoAI == [kind |-> "none", src |-> NullPtr, fresh |-> FALSE]

Range(s) == {s[i] : i \in DOMAIN s}

\* std::unordered_map::insert: no effect when the key is already present.
UMapInsert(m, id, ptr) ==
    IF \E e \in m : e.id = id THEN m ELSE m \cup {[id |-> id, ptr |-> ptr]}

\* std::unordered_map::erase(key) for every key of a set.
UMapErase(m, ids) == {e \in m : e.id \notin ids}

\* The ids of _ids_of_contexts.equal_range(context).
EqualRange(index, context) ==
    {b[2] : b \in {x \in BagToSet(index) : x[1] = context}}

\* GetScriptIDsToRemove(context) of a registry.
GetScriptIDsToRemove(cat, context) == EqualRange(idsOfContexts[cat], context)

\* A lookup that takes _scripts.begin() where find(id) finds nothing.
GetScriptOrFirst(cat, id) ==
    IF \E e \in scripts[cat] : e.id = id
    THEN (CHOOSE e \in scripts[cat] : e.id = id).ptr
    ELSE IF scripts[cat] # {}
    THEN (CHOOSE e \in scripts[cat] : TRUE).ptr
    ELSE NullPtr

\* GetScriptById(id): the stored script, or nullptr.
GetScriptById(cat, id) ==
    IF \E e \in scripts[cat] : e.id = id
    THEN (CHOOSE e \in scripts[cat] : e.id = id).ptr
    ELSE NullPtr

\* The loop of the unbound AddScript over _scripts: the entries holding
\* this very pointer.
StoredWithPointer(m, ptr) == {e \in m : e.ptr = ptr}

\* The loop of the bound AddScript with its comparison inverted.
StoredWithOtherName(m, h, name) == {e \in m : h[e.ptr].name # name}

\* The loop of the bound AddScript over _scripts: the stored scripts of this
\* name.
StoredWithName(m, h, name) == {e \in m : h[e.ptr].name = name}

(* ------------------------------- Init ---------------------------------- *)

\* The managers the hooks call into.
Managers == {"sOutdoorPvPMgr", "sObjectMgr"}

\* No call was made on any creature or manager.
NoCalls == [t \in Entities \cup Managers |-> << >>]

Init ==
    /\ status = "running"
    /\ build = "undetermined"
    /\ currentContext = NoContext
    /\ heap = << >>
    /\ constructed = 0
    /\ registries = {}
    /\ scripts = [c \in Categories |-> {}]
    /\ unboundScripts = [c \in UnboundCategories |-> {}]
    /\ idsOfContexts = [c \in Categories |-> EmptyBag]
    /\ recentlyAdded = [c \in Categories |-> {}]
    /\ alScripts = [c \in AllCategories |-> << >>]
    /\ delayedDeleteQueue = << >>
    /\ scriptnamesToContext = {}
    /\ idsRemoved = {}
    /\ swapped = [c \in SwappedCategories |-> FALSE]
    /\ outdoorPvPMgr = "initialized"
    /\ commandTable = "loaded"
    /\ world = {}
    /\ ai = [e \in Entities |-> NoAI]
    /\ sinceSwap = "none"
    /\ found = << >>
    /\ unit = [e \in Entities |-> [alive |-> TRUE, charmed |-> FALSE]]
    /\ calls = NoCalls

(* ------------------------- ScriptMgr::SetScriptContext ----------------- *)

\* A swap that leaves the current context open.
KeepContext(context) == context

\* _currentContext.clear() at the end of ScriptMgr::SwapScriptContext.
ClearContext(context) == NoContext

SetScriptContext(context) ==
    /\ Running
    /\ currentContext' = context
    /\ found' = << >>
    /\ unit' = unit
    /\ calls' = NoCalls
    /\ UNCHANGED <<status, build, heap, constructed, registries,
                   registryVars,
                   delayedDeleteQueue, scriptnamesToContext, idsRemoved,
                   hookVars, worldVars, sinceSwap>>

(* ------------------- ScriptRegistryCompositum helpers ------------------ *)

\* "delete script;" at once instead of queueing.
QueueDeleteInline(queue, h, ptr) ==
    [queue |-> queue, heap |-> Destroy(h, {ptr})]

\* QueueForDelayedDelete: the queue takes the unique_ptr over; the object
\* stays allocated until DoDelayedDelete.
QueueForDelayedDelete(queue, h, ptr) ==
    [queue |-> Append(queue, ptr), heap |-> h]

\* SetScriptNameInContext: the ASSERT holds iff the name has no entry yet.
ScriptNameAssigned(names, name) == \E n \in names : n.name = name

\* _scripts.insert(std::make_pair(id, std::move(script_ptr))) of a registry.
ScriptsInsert(m, id, ptr) == UMapInsert(m, id, ptr)

(* ------------------------------ AddScript ------------------------------ *)

\* Whether ABORT_MSG/ABORT end the process: fixed per build, and open until
\* the first one is reached.
BuildFlavours ==
    IF build = "undetermined" THEN BOOLEAN ELSE {build = "debug"}

\* What AddScript reads and writes; ub records that the call ran into
\* undefined behaviour (use of a destroyed object, a second delete).
RegistryState ==
    [status |-> status, build |-> build, heap |-> heap, scripts |-> scripts,
     unboundScripts |-> unboundScripts, idsOfContexts |-> idsOfContexts,
     recentlyAdded |-> recentlyAdded, alScripts |-> alScripts,
     delayedDeleteQueue |-> delayedDeleteQueue,
     scriptnamesToContext |-> scriptnamesToContext, ub |-> FALSE]

\* The path taken when the assertion on the current context is left out.
AddScriptOutcomeAnyContext(name, al, debugAssertions, stored, assigned) ==
    IF GetScriptId(name) = NoId THEN "unassigned"
    ELSE IF stored # {}
         THEN (IF debugAssertions THEN "abort_duplicate" ELSE "duplicate")
    ELSE IF al THEN "deferred"
    ELSE IF assigned THEN "assert_scriptname"
    ELSE "registered"

\* The path the bound AddScript(script) takes; stored is what the loop over
\* _scripts finds for the script's name, assigned whether the name has an
\* entry in the name map.
AddScriptOutcome(name, al, debugAssertions, stored, assigned) ==
    IF currentContext = NoContext THEN "assert_no_context"
    ELSE IF GetScriptId(name) = NoId THEN "unassigned"
    ELSE IF stored # {}
         THEN (IF debugAssertions THEN "abort_duplicate" ELSE "duplicate")
    ELSE IF al THEN "deferred"
    ELSE IF assigned THEN "assert_scriptname"
    ELSE "registered"

\* The body of the bound AddScript for the script object at ptr; stored is
\* what its loop over _scripts finds and after is _scripts as its insert
\* leaves it.  The unique_ptr of line 767 deletes the script on every path
\* that does not move it: the after-load path and a failed insert.
AddScriptBody(st, cat, ptr, debugAssertions, stored, after) ==
    LET name == st.heap[ptr].name
        id == GetScriptId(name)
        outcome == AddScriptOutcome(name, st.heap[ptr].al, debugAssertions,
                      stored, ScriptNameAssigned(st.scriptnamesToContext, name))
        queued == QueueForDelayedDelete(st.delayedDeleteQueue, st.heap, ptr)
        stores == outcome \in {"registered", "assert_scriptname"}
        inserted == stores /\ [id |-> id, ptr |-> ptr] \in after
        deleted == outcome = "deferred" \/ (stores /\ ~inserted)
    IN  [st EXCEPT
           !.status = IF outcome \in {"assert_no_context", "abort_duplicate",
                                      "assert_scriptname"}
                      THEN outcome ELSE "running",
           !.delayedDeleteQueue =
                 IF outcome \in {"duplicate", "unassigned"}
                 THEN queued.queue ELSE @,
           !.heap =
                 CASE outcome \in {"duplicate", "unassigned"} -> queued.heap
                   [] deleted -> Destroy(@, {ptr})
                   [] stores /\ inserted -> [@ EXCEPT ![ptr].ctx = currentContext]
                   [] OTHER -> @,
           !.alScripts =
                 IF outcome = "deferred" THEN [@ EXCEPT ![cat] = Append(@, ptr)]
                 ELSE @,
           !.scripts = IF stores THEN [@ EXCEPT ![cat] = after] ELSE @,
           !.idsOfContexts =
                 IF stores
                 THEN [@ EXCEPT ![cat] = @ (+) SetToBag({<<currentContext, id>>})]
                 ELSE @,
           !.recentlyAdded =
                 IF stores THEN [@ EXCEPT ![cat] = @ \cup {id}] ELSE @,
           !.scriptnamesToContext =
                 IF outcome = "registered"
                 THEN @ \cup {[name |-> name, context |-> currentContext]}
                 ELSE @,
           !.build = IF outcome \in {"duplicate", "abort_duplicate"}
                     THEN (IF debugAssertions THEN "debug" ELSE "release")
                     ELSE @,
           !.ub = @ \/ ~st.heap[ptr].live
                    \/ (outcome # "assert_no_context" /\ deleted)]

\* A registration that never looks for the name and stores into a container
\* that admits equal keys.
MultimapInsert(m, id, ptr) == m \cup {[id |-> id, ptr |-> ptr]}
BoundAddScriptUnchecked(st, cat, ptr, debugAssertions) ==
    AddScriptBody(st, cat, ptr, debugAssertions, {},
                  MultimapInsert(st.scripts[cat],
                                 GetScriptId(st.heap[ptr].name), ptr))

\* SpecializedScriptRegistry<ScriptType, true>::AddScript(script).
BoundAddScript(st, cat, ptr, debugAssertions) ==
    AddScriptBody(st, cat, ptr, debugAssertions,
                  StoredWithName(st.scripts[cat], st.heap,
                                 st.heap[ptr].name),
                  ScriptsInsert(st.scripts[cat],
                                GetScriptId(st.heap[ptr].name), ptr))

\* The path the unbound AddScript(script) takes; stored is what its loop
\* over _scripts finds for the pointer.
UnboundAddScriptOutcome(al, stored) ==
    IF currentContext = NoContext THEN "assert_no_context"
    ELSE IF stored # {} THEN "duplicate_pointer"
    ELSE IF al THEN "deferred"
    ELSE "registered"

\* SpecializedScriptRegistry<ScriptType, false>::AddScript(script).  On the
\* pointer path the unique_ptr of line 946, a second owner of the stored
\* script, is moved into the delayed-delete queue.
UnboundAddScript(st, cat, ptr) ==
    LET outcome == UnboundAddScriptOutcome(st.heap[ptr].al,
                      StoredWithPointer(st.unboundScripts[cat], ptr))
        queued == QueueForDelayedDelete(st.delayedDeleteQueue, st.heap, ptr)
    IN  [st EXCEPT
           !.status = IF outcome = "assert_no_context" THEN outcome
                      ELSE "running",
           !.delayedDeleteQueue =
                 IF outcome = "duplicate_pointer" THEN queued.queue ELSE @,
           !.heap =
                 CASE outcome = "duplicate_pointer" -> queued.heap
                   [] outcome = "deferred" -> Destroy(@, {ptr})
                   [] outcome = "registered" ->
                        [@ EXCEPT ![ptr].ctx = currentContext]
                   [] OTHER -> @,
           !.alScripts =
                 IF outcome = "deferred" THEN [@ EXCEPT ![cat] = Append(@, ptr)]
                 ELSE @,
           !.unboundScripts =
                 IF outcome = "registered"
                 THEN [@ EXCEPT ![cat] = @ \cup {[context |-> currentContext,
                                                   ptr |-> ptr]}]
                 ELSE @,
           !.ub = @ \/ ~st.heap[ptr].live \/ outcome = "deferred"]

\* ScriptRegistry<ScriptType>::Instance()->AddScript(script).
AddScript(st, cat, ptr, debugAssertions) ==
    IF cat \in Categories
    THEN BoundAddScript(st, cat, ptr, debugAssertions)
    ELSE UnboundAddScript(st, cat, ptr)

\* The state a call leaves: undefined behaviour either goes unnoticed or
\* ends the process (a detected double free, a fault on freed memory).
Commit(st) ==
    /\ \E fault \in (IF st.ub /\ st.status = "running"
                     THEN BOOLEAN ELSE {FALSE}) :
          status' = IF fault THEN "undefined_behaviour" ELSE st.status
    /\ build' = st.build
    /\ heap' = st.heap
    /\ scripts' = st.scripts
    /\ unboundScripts' = st.unboundScripts
    /\ idsOfContexts' = st.idsOfContexts
    /\ recentlyAdded' = st.recentlyAdded
    /\ alScripts' = st.alScripts
    /\ delayedDeleteQueue' = st.delayedDeleteQueue
    /\ scriptnamesToContext' = st.scriptnamesToContext

\* operator new: an address never used before, or the address of a destroyed
\* script of this type that _alScripts still points to.
NewAddresses(cat) ==
    {Len(heap) + 1} \cup {p \in Range(alScripts[cat]) : ~heap[p].live}

\* The script object constructed at ptr.
Construct(h, ptr, object) ==
    IF ptr \in DOMAIN h THEN [h EXCEPT ![ptr] = object] ELSE Append(h, object)

\* new ScriptType(name): the constructor calls
\* ScriptRegistry<ScriptType>::Instance()->AddScript(this).
ConstructScript(cat, name, al) ==
    /\ Running
    /\ constructed' = constructed + 1
    /\ \E ptr \in NewAddresses(cat), debugAssertions \in BuildFlavours :
          LET st == AddScript(
                       [RegistryState EXCEPT
                           !.heap = Construct(@, ptr, ScriptObject(name, al))],
                       cat, ptr, debugAssertions)
          IN  Commit(st)
    /\ registries' = registries \cup {cat}
    /\ sinceSwap' = "none"
    /\ found' = << >>
    /\ unit' = unit
    /\ calls' = NoCalls
    /\ UNCHANGED <<currentContext, idsRemoved, hookVars, worldVars>>

\* A script is loaded into the running server, where creatures may exist.
NewScript(cat, name, al) ==
    /\ constructed < MaxScripts
    /\ ConstructScript(cat, name, al)

\* A script is loaded while the maps hold no creature yet.
NewStartupScript(cat, name, al) ==
    /\ constructed < MaxStartupScripts
    /\ world = {}
    /\ ConstructScript(cat, name, al)

\* A script of any category that registers at once is loaded.
NewHookedScript(cat, name) ==
    /\ constructed < MaxHookedScripts
    /\ ConstructScript(cat, name, FALSE)

(* ----------------------------- AddALScripts ---------------------------- *)

RECURSIVE Replay(_, _, _, _)
\* for (auto itr : _alScripts) AddScript(itr); an assertion ends the loop.
Replay(st, cat, pointers, debugAssertions) ==
    IF pointers = << >> \/ st.status # "running" THEN st
    ELSE Replay(AddScript(st, cat, Head(pointers), debugAssertions),
                cat, Tail(pointers), debugAssertions)

\* ScriptRegistry<ScriptType>::Instance()->AddALScripts(), as LoadDatabase
\* calls it: the buffered pointers are replayed, then the buffer is cleared.
\* A replayed script that is buffered again grows the vector under the
\* loop's iterators.
AddALScripts(cat) ==
    /\ Running
    /\ \E debugAssertions \in BuildFlavours :
          LET st == Replay(RegistryState, cat, alScripts[cat], debugAssertions)
          IN  Commit(IF st.status = "running"
                     THEN [st EXCEPT !.alScripts[cat] = << >>,
                                     !.ub = @ \/ st.alScripts[cat] # alScripts[cat]]
                     ELSE st)
    /\ registries' = registries \cup {cat}
    /\ sinceSwap' = IF alScripts[cat] = << >> THEN sinceSwap ELSE "none"
    /\ found' = << >>
    /\ unit' = unit
    /\ calls' = NoCalls
    /\ UNCHANGED <<currentContext, constructed, idsRemoved, hookVars,
                   worldVars>>

(* ------------------ creature entity-attachment hook -------------------- *)

\* A visit of every stored object, whatever its script id.
ObjectsInWorld(idsToRemove) == world

\* VisitObjectsToSwapOnMap: the stored objects whose script id is in the set.
ObjectsToSwap(idsToRemove) == {e \in world : EntityScriptId(e) \in idsToRemove}

\* The destroy pass skipping the objects without a guid, as the reset pass
\* does.
DestroyOnlyWithGuid(a, idsToRemove) ==
    [e \in Entities |->
        IF e \in ObjectsToSwap(idsToRemove) /\ ~GuidIsEmpty(e)
        THEN NoAI ELSE a[e]]

\* DestroyScriptIdsFromSet: UnloadDestroyScript (AIM_Destroy) on every
\* visited object, whatever its guid.
DestroyScriptIdsFromSet(a, idsToRemove) ==
    [e \in Entities |-> IF e \in ObjectsToSwap(idsToRemove) THEN NoAI ELSE a[e]]

\* ScriptMgr::GetCreatureAI: the script registered for the creature's
\* script id gives the AI; nullptr when none is registered.
GetCreatureAI(e) == GetScriptById("Creature", EntityScriptId(e))

\* Creature::AIM_Create: the AI of the registered script, else the default
\* (fallback) AI the selector picks; never fails.
AIM_Create(e) ==
    IF GetCreatureAI(e) # NullPtr
    THEN [kind |-> "script", src |-> GetCreatureAI(e), fresh |-> TRUE]
    ELSE [kind |-> "default", src |-> NullPtr, fresh |-> TRUE]

\* The recreate pass with its AI test inverted: nothing is initialised.
InitializeOnlyWithAI(a, idsToRemove) ==
    [e \in Entities |->
        IF e \in ObjectsToSwap(idsToRemove) /\ a[e] # NoAI /\ ~GuidIsEmpty(e)
        THEN AIM_Create(e) ELSE a[e]]

\* InitializeScriptIdsFromSet: LoadInitializeScript on every visited object
\* that has no AI and a guid.
InitializeScriptIdsFromSet(a, idsToRemove) ==
    [e \in Entities |->
        IF e \in ObjectsToSwap(idsToRemove) /\ a[e] = NoAI /\ ~GuidIsEmpty(e)
        THEN AIM_Create(e) ELSE a[e]]

\* History only: no AI that exists when a swap starts was made by that swap.
Age(a) == [e \in Entities |-> [a[e] EXCEPT !.fresh = FALSE]]

\* The creatures as the hooks meet them: alive, charmed, and the calls made
\* on each so far in this step.
Units == [e \in Entities |-> [alive |-> unit[e].alive,
                              charmed |-> unit[e].charmed, calls |-> << >>]]

\* UnloadResetScript(Creature*): the deletable events are killed, a charm is
\* removed, and a creature that is alive evades with the AI it still has.
UnloadResetScript(c) ==
    [alive |-> c.alive, charmed |-> FALSE,
     calls |-> c.calls \o <<"KillAllEvents">>
                  \o (IF c.charmed THEN <<"RemoveCharmedBy">> ELSE << >>)
                  \o (IF c.alive THEN <<"EnterEvadeMode">> ELSE << >>)]

\* UnloadDestroyScript(Creature*).
UnloadDestroyScript(c) == [c EXCEPT !.calls = Append(@, "AIM_Destroy")]

\* A destroy pass that leaves out the reset visit.
DestroyWithoutReset(a, cs, idsToRemove) ==
    [e \in Entities |->
        IF e \in ObjectsToSwap(idsToRemove) THEN UnloadDestroyScript(cs[e])
        ELSE cs[e]]

\* DestroyScriptIdsFromSet, as the creatures see it: UnloadResetScript on
\* the visited objects with an AI and a guid, then UnloadDestroyScript on
\* every visited object.
DestroyCalls(a, cs, idsToRemove) ==
    [e \in Entities |->
        IF e \in ObjectsToSwap(idsToRemove)
        THEN UnloadDestroyScript(IF a[e] # NoAI /\ ~GuidIsEmpty(e)
                                 THEN UnloadResetScript(cs[e]) ELSE cs[e])
        ELSE cs[e]]

\* LoadInitializeScript(Creature*).
LoadInitializeScript(c) ==
    [c EXCEPT !.calls = @ \o (IF c.alive THEN <<"ClearUnitState">> ELSE << >>)
                          \o <<"AIM_Create">>]

\* A LoadResetScript that casts the visual spell at once.
LoadResetCastingNow(c) ==
    IF ~c.alive THEN c
    ELSE [c EXCEPT !.calls = @ \o <<"AI_InitializeAndEnable",
                                    "EnterEvadeMode", "CastSpell">>]

\* LoadResetScript(Creature*): nothing for a creature that is not alive;
\* the visual spell is cast by an event added to the creature's events.
LoadResetScript(c) ==
    IF ~c.alive THEN c
    ELSE [c EXCEPT !.calls = @ \o <<"AI_InitializeAndEnable",
                                    "EnterEvadeMode", "AddEvent">>]

\* InitializeScriptIdsFromSet, as the creatures see it; a holds the AIs the
\* destroy pass left.
InitializeCalls(a, cs, idsToRemove) ==
    [e \in Entities |->
        IF e \in ObjectsToSwap(idsToRemove) /\ a[e] = NoAI /\ ~GuidIsEmpty(e)
        THEN LoadResetScript(LoadInitializeScript(cs[e])) ELSE cs[e]]

\* The calls BeforeReleaseContext of the creature hook makes.
CreatureReleaseCalls(context) ==
    DestroyCalls(ai, Units, GetScriptIDsToRemove("Creature", context))

\* The calls BeforeSwapContext of the creature hook makes.
CreatureSwapCalls(initialize) ==
    IF initialize THEN Units
    ELSE LET ids == idsRemoved \cup recentlyAdded["Creature"]
         IN  InitializeCalls(DestroyScriptIdsFromSet(Age(ai), ids),
                             DestroyCalls(ai, Units, ids), ids)

\* What a step leaves of the creatures, and the calls it made.
UnitsAfter(cs) ==
    [e \in Entities |-> [alive |-> cs[e].alive, charmed |-> cs[e].charmed]]

CallsAfter(cs, pvp, objmgr) ==
    [t \in Entities \cup Managers |->
        IF t \in Entities THEN cs[t].calls
        ELSE IF t = "sOutdoorPvPMgr" THEN pvp ELSE objmgr]

\* A release hook that notes the ids and leaves the AIs in place.
CreatureReleaseKeepingAI(context) ==
    [ai |-> ai,
     idsRemoved |-> idsRemoved \cup GetScriptIDsToRemove("Creature", context)]

\* CreatureGameObjectScriptRegistrySwapHooks::BeforeReleaseContext.
CreatureBeforeReleaseContext(context) ==
    LET idsToRemove == GetScriptIDsToRemove("Creature", context)
    IN  [ai |-> DestroyScriptIdsFromSet(ai, idsToRemove),
         idsRemoved |-> idsRemoved \cup idsToRemove]

\* The hook running after the registry has cleared its recently added ids.
CreatureSwapAfterClear(initialize) ==
    IF initialize
    THEN [ai |-> Age(ai), idsRemoved |-> idsRemoved]
    ELSE [ai |-> InitializeScriptIdsFromSet(
                    DestroyScriptIdsFromSet(Age(ai), idsRemoved), idsRemoved),
          idsRemoved |-> {}]

\* The hook without the insert of the recently added ids.
CreatureSwapRemovedOnly(a, removed, recently, initialize) ==
    IF initialize
    THEN [ai |-> Age(a), idsRemoved |-> removed]
    ELSE [ai |-> InitializeScriptIdsFromSet(
                    DestroyScriptIdsFromSet(Age(a), removed), removed),
          idsRemoved |-> {}]

\* CreatureGameObjectScriptRegistrySwapHooks::BeforeSwapContext, run with
\* the AIs a, ids_removed_ removed and the registry's recently added ids.
CreatureSwapHook(a, removed, recently, initialize) ==
    IF initialize
    THEN [ai |-> Age(a), idsRemoved |-> removed]
    ELSE LET ids == removed \cup recently
         IN  [ai |-> InitializeScriptIdsFromSet(
                        DestroyScriptIdsFromSet(Age(a), ids), ids),
              idsRemoved |-> {}]

\* CreatureGameObjectScriptRegistrySwapHooks::BeforeSwapContext.
CreatureBeforeSwapContext(initialize) ==
    CreatureSwapHook(ai, idsRemoved, recentlyAdded["Creature"], initialize)

(* ------ SpecializedScriptRegistry<ScriptType, true>::ReleaseContext ---- *)

\* The loop running over the range of the current context instead of the
\* released one.
RegistryReleaseCurrentContext(cat, context) ==
    UMapErase(scripts[cat], GetScriptIDsToRemove(cat, currentContext))

\* The loop of ReleaseContext: _scripts.erase(itr->second) for every index
\* entry of the context.  The index itself is left as it is.
RegistryReleaseContext(cat, context) ==
    UMapErase(scripts[cat], GetScriptIDsToRemove(cat, context))

\* A release that passes over the registry.
UnboundKeepContext(cat, context) == unboundScripts[cat]

\* A release that erases the scripts of every context.
UnboundReleaseAll(cat, context) == {}

\* SpecializedScriptRegistry<ScriptType, false>::ReleaseContext:
\* _scripts.erase(context) after the (empty) hook.
UnboundReleaseContext(cat, context) ==
    {e \in unboundScripts[cat] : e.context # context}

\* A release that leaves _scriptnames_to_context alone.
KeepScriptNamesOfContext(context) == scriptnamesToContext

\* The second loop of ScriptRegistryCompositum::ReleaseContext.
EraseScriptNamesOfContext(context) ==
    {n \in scriptnamesToContext : n.context # context}

\* The empty BeforeReleaseContext of ScriptRegistrySwapHookBase.
DefaultReleaseAsserts(cat, context) == FALSE

\* UnsupportedScriptRegistrySwapHooks::BeforeReleaseContext: the ASSERT fails
\* iff the index has an entry for the context.
UnsupportedReleaseAsserts(cat, context) ==
    GetScriptIDsToRemove(cat, context) # {}

\* A hook that tears the manager down on every release of its ids.
OutdoorPvPDieOnEveryRelease(context) ==
    IF GetScriptIDsToRemove("OutdoorPvP", context) # {}
    THEN <<"Die">> ELSE << >>

\* The call BeforeReleaseContext of the outdoor PvP hook makes.
OutdoorPvPReleaseCalls(context) ==
    IF ~swapped["OutdoorPvP"] /\ GetScriptIDsToRemove("OutdoorPvP", context) # {}
    THEN <<"Die">> ELSE << >>

\* ScriptRegistrySwapHooks<OutdoorPvPScript, Base>::BeforeReleaseContext.
OutdoorPvPBeforeReleaseContext(context) ==
    IF ~swapped["OutdoorPvP"] /\ GetScriptIDsToRemove("OutdoorPvP", context) # {}
    THEN [swapped |-> TRUE, mgr |-> "dead"]
    ELSE [swapped |-> swapped["OutdoorPvP"], mgr |-> outdoorPvPMgr]

\* A hook that flips its flag on every release of a context it has ids of.
FlagFlippedOnRelease(cat, context) ==
    IF GetScriptIDsToRemove(cat, context) # {} THEN ~swapped[cat]
    ELSE swapped[cat]

\* BeforeReleaseContext of the hooks of InstanceMapScript and
\* SpellScriptLoader: swapped = true if the index has the context.
FlagBeforeReleaseContext(cat, context) ==
    swapped[cat] \/ GetScriptIDsToRemove(cat, context) # {}

\* ChatHandler::InvalidateCommandTable, called by every hook of CommandScript.
InvalidateCommandTable == "invalidated"

\* ScriptMgr::ReleaseScriptContext -> ScriptRegistryCompositum::ReleaseContext:
\* every registered registry runs its hook and erases, then the names go.
\* The registries are visited in the order of an unordered_set: when the
\* hook of the battleground registry asserts, the ones visited before it
\* have released already.
ReleaseContext(context) ==
    /\ Running
    /\ LET failing == /\ "Battleground" \in registries
                      /\ UnsupportedReleaseAsserts("Battleground", context)
       IN  \E done \in (IF failing
                        THEN SUBSET (registries \ {"Battleground"})
                        ELSE {registries}) :
       LET hook == IF "Creature" \in done
                   THEN CreatureBeforeReleaseContext(context)
                   ELSE [ai |-> ai, idsRemoved |-> idsRemoved]
           pvp == IF "OutdoorPvP" \in done
                  THEN OutdoorPvPBeforeReleaseContext(context)
                  ELSE [swapped |-> swapped["OutdoorPvP"],
                        mgr |-> outdoorPvPMgr]
           after == [c \in Categories |->
                        IF c \in done
                        THEN RegistryReleaseContext(c, context)
                        ELSE scripts[c]]
           unboundAfter == [c \in UnboundCategories |->
                               IF c \in done
                               THEN UnboundReleaseContext(c, context)
                               ELSE unboundScripts[c]]
           erased == UNION ({{e.ptr : e \in scripts[c] \ after[c]} :
                                c \in Categories}
                            \cup {{e.ptr : e \in unboundScripts[c]
                                                   \ unboundAfter[c]} :
                                     c \in UnboundCategories})
       IN  /\ ai' = hook.ai
           /\ idsRemoved' = hook.idsRemoved
           /\ swapped' = [c \in SwappedCategories |->
                             IF c \notin done THEN swapped[c]
                             ELSE IF c = "OutdoorPvP" THEN pvp.swapped
                             ELSE FlagBeforeReleaseContext(c, context)]
           /\ outdoorPvPMgr' = pvp.mgr
           /\ commandTable' = IF "Command" \in done
                              THEN InvalidateCommandTable ELSE commandTable
           /\ scripts' = after
           /\ unboundScripts' = unboundAfter
           /\ heap' = Destroy(heap, erased)
           /\ \E s \in StatusAfter(\E p \in erased : ~heap[p].live) :
                 status' = IF failing THEN "assert_unsupported_release" ELSE s
           /\ scriptnamesToContext' = IF failing THEN scriptnamesToContext
                                      ELSE EraseScriptNamesOfContext(context)
           /\ LET cs == IF "Creature" \in done
                        THEN CreatureReleaseCalls(context) ELSE Units
              IN  /\ unit' = UnitsAfter(cs)
                  /\ calls' = CallsAfter(cs,
                                  IF "OutdoorPvP" \in done
                                  THEN OutdoorPvPReleaseCalls(context)
                                  ELSE << >>, << >>)
    /\ sinceSwap' = "none"
    /\ found' = << >>
    /\ UNCHANGED <<build, currentContext, constructed, registries,
                   idsOfContexts, recentlyAdded, alScripts, delayedDeleteQueue,
                   world>>

(* -------- SpecializedScriptRegistry<ScriptType, true>::SwapContext ----- *)

\* SwapContext without the clear().
KeepRecentlyAdded(cat) == recentlyAdded[cat]

\* _recently_added_ids.clear() of one registry, after its hook.
ClearRecentlyAdded(cat) == {}

\* ScriptRegistryCompositum::DoDelayedDelete: the queue is cleared and the
\* queued objects are destroyed.
DoDelayedDelete(queue, h) == [queue |-> << >>, heap |-> Destroy(h, Range(queue))]

\* The call BeforeSwapContext of the outdoor PvP hook makes.
OutdoorPvPSwapCalls(initialize) ==
    IF ~initialize /\ swapped["OutdoorPvP"]
    THEN <<"InitOutdoorPvP">> ELSE << >>

\* A spell hook that validates at every swap.
SpellValidateAlways(initialize) == <<"ValidateSpellScripts">>

\* The call BeforeSwapContext of the spell script hook makes.
SpellSwapCalls(initialize) ==
    IF swapped["SpellScriptLoader"]
    THEN <<"ValidateSpellScripts">> ELSE << >>

\* A swap hook that restarts the manager on the initial swap as well.
OutdoorPvPSwapOnAnyLoad(initialize) ==
    IF swapped["OutdoorPvP"]
    THEN [swapped |-> FALSE, mgr |-> "initialized"]
    ELSE [swapped |-> swapped["OutdoorPvP"], mgr |-> outdoorPvPMgr]

\* ScriptRegistrySwapHooks<OutdoorPvPScript, Base>::BeforeSwapContext.
OutdoorPvPBeforeSwapContext(initialize) ==
    IF ~initialize /\ swapped["OutdoorPvP"]
    THEN [swapped |-> FALSE, mgr |-> "initialized"]
    ELSE [swapped |-> swapped["OutdoorPvP"], mgr |-> outdoorPvPMgr]

\* BeforeSwapContext of the hooks of InstanceMapScript and SpellScriptLoader
\* (the latter after sObjectMgr->ValidateSpellScripts()): swapped = false.
FlagBeforeSwapContext(cat, initialize) == FALSE

\* ScriptMgr::SwapScriptContext -> ScriptRegistryCompositum::SwapContext:
\* every registered registry runs its hook and clears its recently added
\* ids, the delayed-delete queue is drained, the current context is cleared.
SwapContext(initialize) ==
    /\ Running
    /\ LET hook == IF "Creature" \in registries
                   THEN CreatureBeforeSwapContext(initialize)
                   ELSE [ai |-> Age(ai), idsRemoved |-> idsRemoved]
           pvp == IF "OutdoorPvP" \in registries
                  THEN OutdoorPvPBeforeSwapContext(initialize)
                  ELSE [swapped |-> swapped["OutdoorPvP"],
                        mgr |-> outdoorPvPMgr]
           drained == DoDelayedDelete(delayedDeleteQueue, heap)
       IN  /\ ai' = hook.ai
           /\ idsRemoved' = hook.idsRemoved
           /\ swapped' = [c \in SwappedCategories |->
                             IF c \notin registries THEN swapped[c]
                             ELSE IF c = "OutdoorPvP" THEN pvp.swapped
                             ELSE FlagBeforeSwapContext(c, initialize)]
           /\ outdoorPvPMgr' = pvp.mgr
           /\ commandTable' = IF "Command" \in registries
                              THEN InvalidateCommandTable ELSE commandTable
           /\ delayedDeleteQueue' = drained.queue
           /\ heap' = drained.heap
           /\ status' \in StatusAfter(DoubleFree(heap, delayedDeleteQueue))
           /\ LET cs == IF "Creature" \in registries
                        THEN CreatureSwapCalls(initialize) ELSE Units
              IN  /\ unit' = UnitsAfter(cs)
                  /\ calls' = CallsAfter(cs,
                                  IF "OutdoorPvP" \in registries
                                  THEN OutdoorPvPSwapCalls(initialize)
                                  ELSE << >>,
                                  IF "SpellScriptLoader" \in registries
                                  THEN SpellSwapCalls(initialize)
                                  ELSE << >>)
    /\ recentlyAdded' = [c \in Categories |->
                            IF c \in registries THEN ClearRecentlyAdded(c)
                            ELSE recentlyAdded[c]]
    /\ currentContext' = ClearContext(currentContext)
    /\ sinceSwap' = CASE initialize -> "initialize"
                       [] ~initialize /\ sinceSwap \in {"swap", "again"} -> "again"
                       [] OTHER -> "swap"
    /\ found' = << >>
    /\ UNCHANGED <<build, constructed, registries, scripts, unboundScripts,
                   idsOfContexts, alScripts, scriptnamesToContext, world>>

(* ----------------------------- Unload ---------------------------------- *)

\* Unload of a registry without the BeforeUnload call of its hook.
UnloadAssertsWithoutHook(cat) ==
    cat \in Categories /\ recentlyAdded[cat] # {}

\* The assertions of Unload of one registry: BeforeUnload of its hook, then
\* "Recently added script ids should be empty here!".
UnloadAsserts(cat) ==
    \/ cat = "Creature" /\ idsRemoved # {}
    \/ cat \in SwappedCategories /\ swapped[cat]
    \/ cat \in Categories /\ recentlyAdded[cat] # {}

\* ScriptMgr::Unload -> ScriptRegistryCompositum::Unload.  The registries
\* are visited in the order of an unordered_set: the ones visited before
\* the first failing assertion are already cleared.
Unload ==
    /\ Running
    /\ \E done \in SUBSET {c \in registries : ~UnloadAsserts(c)} :
          LET failing == {c \in registries : UnloadAsserts(c)}
              cleared == IF failing = {} THEN registries ELSE done
              erased == UNION ({{e.ptr : e \in scripts[c]} :
                                   c \in cleared \cap Categories}
                               \cup {{e.ptr : e \in unboundScripts[c]} :
                                        c \in cleared \cap UnboundCategories})
          IN  /\ failing = {} => done = registries
              /\ \E s \in StatusAfter(\E p \in erased : ~heap[p].live) :
                    status' = IF failing # {} THEN "assert_unload"
                              ELSE IF s = "running" THEN "unloaded" ELSE s
              /\ scripts' = [c \in Categories |->
                                IF c \in cleared THEN {} ELSE scripts[c]]
              /\ unboundScripts' = [c \in UnboundCategories |->
                                IF c \in cleared THEN {} ELSE unboundScripts[c]]
              /\ idsOfContexts' = [c \in Categories |->
                                IF c \in cleared THEN EmptyBag
                                ELSE idsOfContexts[c]]
              /\ heap' = Destroy(heap, erased)
              /\ commandTable' = IF "Command" \in cleared
                                 THEN InvalidateCommandTable ELSE commandTable
    /\ found' = << >>
    /\ unit' = unit
    /\ calls' = NoCalls
    /\ UNCHANGED <<build, currentContext, constructed, registries,
                   recentlyAdded, alScripts, delayedDeleteQueue,
                   scriptnamesToContext, idsRemoved, swapped, outdoorPvPMgr,
                   worldVars, sinceSwap>>

(* ------------------------------ world ---------------------------------- *)

\* A creature is added to a map's object store, with its AI initialised
\* (AIM_Create) or not yet.
Spawn(e, attach) ==
    /\ Running
    /\ e \notin world
    /\ world' = world \cup {e}
    /\ ai' = [ai EXCEPT ![e] = IF attach
                               THEN [AIM_Create(e) EXCEPT !.fresh = FALSE]
                               ELSE NoAI]
    /\ found' = << >>
    /\ unit' = unit
    /\ calls' = NoCalls
    /\ UNCHANGED <<status, build, currentContext, heap, constructed,
                   registries,
                   registryVars, delayedDeleteQueue, scriptnamesToContext,
                   idsRemoved, hookVars, sinceSwap>>

(* --------------------------- specification ----------------------------- *)

Next ==
    \/ \E context \in Contexts : SetScriptContext(context)
    \/ \E cat \in CoreCategories : \E name \in NamesOf(cat), al \in BOOLEAN :
          NewScript(cat, name, al)
    \/ \E cat \in CoreCategories : AddALScripts(cat)
    \/ \E context \in Contexts : ReleaseContext(context)
    \/ \E initialize \in BOOLEAN : SwapContext(initialize)
    \/ Unload
    \/ \E e \in Entities, attach \in BOOLEAN : Spawn(e, attach)

Spec == Init /\ [][Next]_vars

\* The registries before any creature is spawned: one more script is
\* constructed, nothing populates the maps.
NextStartup ==
    \/ \E context \in Contexts : SetScriptContext(context)
    \/ \E cat \in CoreCategories : \E name \in NamesOf(cat), al \in BOOLEAN :
          NewStartupScript(cat, name, al)
    \/ \E cat \in CoreCategories : AddALScripts(cat)
    \/ \E context \in Contexts : ReleaseContext(context)
    \/ \E initialize \in BOOLEAN : SwapContext(initialize)
    \/ Unload

SpecStartup == Init /\ [][NextStartup]_vars

\* The command table is built again when a command is looked up after an
\* invalidation.
LoadCommandTable ==
    /\ Running
    /\ commandTable = "invalidated"
    /\ commandTable' = "loaded"
    /\ found' = << >>
    /\ unit' = unit
    /\ calls' = NoCalls
    /\ UNCHANGED <<status, build, currentContext, heap, constructed,
                   registries, registryVars, delayedDeleteQueue,
                   scriptnamesToContext, idsRemoved, swapped, outdoorPvPMgr,
                   worldVars, sinceSwap>>

\* The registries of every hooked category, with scripts that register at
\* once (none asks for post-load registration).
NextHooks ==
    \/ \E context \in Contexts : SetScriptContext(context)
    \/ \E cat \in AllCategories : \E name \in NamesOf(cat) :
          NewHookedScript(cat, name)
    \/ \E context \in Contexts : ReleaseContext(context)
    \/ \E initialize \in BOOLEAN : SwapContext(initialize)
    \/ Unload
    \/ \E e \in Entities, attach \in BOOLEAN : Spawn(e, attach)
    \/ LoadCommandTable

SpecHooks == Init /\ [][NextHooks]_vars

\* Something charms a creature of the world that is alive.
Charm(e) ==
    /\ Running
    /\ e \in world
    /\ unit[e].alive /\ ~unit[e].charmed
    /\ unit' = [unit EXCEPT ![e].charmed = TRUE]
    /\ found' = << >>
    /\ calls' = NoCalls
    /\ UNCHANGED <<status, build, currentContext, heap, constructed,
                   registries, registryVars, delayedDeleteQueue,
                   scriptnamesToContext, idsRemoved, hookVars, worldVars,
                   sinceSwap>>

\* A creature of the world dies.
Kill(e) ==
    /\ Running
    /\ e \in world
    /\ unit[e].alive
    /\ unit' = [unit EXCEPT ![e].alive = FALSE]
    /\ found' = << >>
    /\ calls' = NoCalls
    /\ UNCHANGED <<status, build, currentContext, heap, constructed,
                   registries, registryVars, delayedDeleteQueue,
                   scriptnamesToContext, idsRemoved, hookVars, worldVars,
                   sinceSwap>>

\* Creature scripts are added, released and swapped while the creatures of
\* the world are charmed and die.
NextCreature ==
    \/ \E context \in Contexts : SetScriptContext(context)
    \/ \E name \in NamesOf("Creature") : NewScript("Creature", name, FALSE)
    \/ \E context \in Contexts : ReleaseContext(context)
    \/ \E initialize \in BOOLEAN : SwapContext(initialize)
    \/ \E e \in Entities, attach \in BOOLEAN : Spawn(e, attach)
    \/ \E e \in Entities : Charm(e)
    \/ \E e \in Entities : Kill(e)

SpecCreature == Init /\ [][NextCreature]_vars

\* A caller looks a script up: ScriptRegistry<T>::GetScriptById(id) on an
\* identifier-bound registry.
Lookup(cat, id) ==
    /\ Running
    /\ found' = <<GetScriptById(cat, id)>>
    /\ unit' = unit
    /\ calls' = NoCalls
    /\ UNCHANGED <<status, build, currentContext, heap, constructed,
                   registries, registryVars, delayedDeleteQueue,
                   scriptnamesToContext, idsRemoved, hookVars, worldVars,
                   sinceSwap>>

\* The registries looked into and the ids looked for: the creature
\* registry and one whose hook keeps a flag, their own ids and foreign ones.
LookupCategories == {"Creature", "OutdoorPvP"}
LookupIds == {GetScriptId(n) : n \in {"A", "B", "PVP"}}

NextLookup ==
    \/ NextHooks
    \/ \E cat \in LookupCategories : \E id \in LookupIds : Lookup(cat, id)

SpecLookup == Init /\ [][NextLookup]_vars

\* What ScriptRegistryCompositum::GetScriptContextOfScriptName finds: the
\* context of the entry, or nothing, and then its ASSERT fails.
ScriptContextOfScriptName(scriptname) ==
    IF ScriptNameAssigned(scriptnamesToContext, scriptname)
    THEN <<(CHOOSE n \in scriptnamesToContext : n.name = scriptname).context>>
    ELSE << >>

\* A caller asks for the context a script name lives in.
GetScriptContextOfScriptName(scriptname) ==
    /\ Running
    /\ found' = ScriptContextOfScriptName(scriptname)
    /\ unit' = unit
    /\ calls' = NoCalls
    /\ status' = IF ScriptContextOfScriptName(scriptname) = << >>
                 THEN "assert_scriptname" ELSE status
    /\ UNCHANGED <<build, currentContext, heap, constructed,
                   registries, registryVars, delayedDeleteQueue,
                   scriptnamesToContext, idsRemoved, hookVars, worldVars,
                   sinceSwap>>

\* The script names asked for.
QueryNames == {"A", "B"}

NextQuery ==
    \/ Next
    \/ \E scriptname \in QueryNames : GetScriptContextOfScriptName(scriptname)

SpecQuery == Init /\ [][NextQuery]_vars

(* ------------------------------ claims --------------------------------- *)

\* The registry entries whose script was registered under the context.
RegisteredUnder(cat, context) ==
    {e \in scripts[cat] : heap[e.ptr].ctx = context}

\* The script objects that were registered and have been erased since.
ReleasedScripts(context) ==
    {p \in DOMAIN heap : heap[p].ctx = context /\ ~heap[p].live}

\* C1 Release completeness (lookup): once ReleaseContext(c) has returned,
\* GetScriptById gives nullptr for every id registered under c before.
C1_ReleaseCompletenessLookup ==
    [][\A context \in Contexts : ReleaseContext(context) =>
          \A cat \in Categories : \A e \in RegisteredUnder(cat, context) :
             GetScriptById(cat, e.id)' = NullPtr]_vars

\* C1 witness: ids 1 ("A") and 2 ("B") were registered in "mod1", "mod1"
\* was released, and neither id is retrievable.
C1_Witness ==
    /\ Running
    /\ \E p, q \in ReleasedScripts("mod1") :
          heap[p].name = "A" /\ heap[q].name = "B"
    /\ GetScriptById("Creature", 1) = NullPtr
    /\ GetScriptById("Creature", 2) = NullPtr

\* C2 Release completeness (index): once ReleaseContext(c) has returned,
\* _ids_of_contexts holds no entry of context c.
C2_IndexPrunedOnRelease ==
    [][\A context \in Contexts : ReleaseContext(context) =>
          \A cat \in Categories :
             EqualRange(idsOfContexts[cat], context)' = {}]_vars

\* C3 Context partition: every id stored in _scripts is in the index bucket
\* of exactly one context.
C3_ContextPartition ==
    \A cat \in Categories : \A e \in scripts[cat] :
       Cardinality({c \in Contexts :
                       e.id \in EqualRange(idsOfContexts[cat], c)}) = 1

\* C4 Release isolation: ReleaseContext(c) erases no script that is
\* registered under another context.
C4_ReleaseIsolation ==
    [][\A context \in Contexts : ReleaseContext(context) =>
          \A cat \in Categories : \A e \in scripts[cat] :
             heap[e.ptr].ctx # context => e \in scripts'[cat]]_vars

\* C5 Uniqueness: _scripts holds at most one instance per id and per name.
C5_Uniqueness ==
    \A cat \in Categories : \A e1, e2 \in scripts[cat] :
       (e1.id = e2.id \/ heap[e1.ptr].name = heap[e2.ptr].name) => e1 = e2

\* A second instance of a stored script's name was passed to AddScript and
\* turned away: it waits in the delayed-delete queue.
RejectedDuplicateQueued ==
    \E cat \in Categories : \E e \in scripts[cat] :
       \E p \in Range(delayedDeleteQueue) :
          p # e.ptr /\ heap[p].name = heap[e.ptr].name

\* C5 witness: two AddScript calls for one name were made in one context and
\* the registry holds the first instance only.
C5_Witness ==
    /\ Running
    /\ RejectedDuplicateQueued
    /\ \A p \in DOMAIN heap : heap[p].name = "A"

\* C6 Duplicate registration: AddScript for a name that is stored already
\* leaves _scripts as it is, so GetScriptById still gives the first instance;
\* the process either ends at the ABORT_MSG or goes on with the second
\* instance appended, alive, to the delayed-delete queue.
C6_DuplicateRejected ==
    [][\A cat \in Categories, name \in Names, al \in BOOLEAN :
          (/\ ConstructScript(cat, name, al)
           /\ currentContext # NoContext
           /\ \E e \in scripts[cat] : heap[e.ptr].name = name)
          => /\ scripts' = scripts
             /\ GetScriptById(cat, GetScriptId(name))'
                   = GetScriptById(cat, GetScriptId(name))
             /\ status' \in {"running", "abort_duplicate"}
             /\ status' = "running" =>
                   \E p \in DOMAIN heap' :
                      /\ delayedDeleteQueue' = Append(delayedDeleteQueue, p)
                      /\ heap'[p] = ScriptObject(name, al)
                      /\ p # GetScriptById(cat, GetScriptId(name))
             /\ status' = "abort_duplicate" =>
                   delayedDeleteQueue' = delayedDeleteQueue]_vars

\* C6 witness: the process went on after a duplicate; the first instance is
\* the one GetScriptById gives and the second is the last queue entry.
C6_Witness ==
    /\ Running
    /\ build = "release"
    /\ Len(heap) = 2
    /\ heap[1].name = heap[2].name
    /\ GetScriptById("Creature", GetScriptId(heap[1].name)) = 1
    /\ delayedDeleteQueue = <<2>>

\* The pointers the registries' _scripts hold.
StoredPointers ==
    UNION ({{e.ptr : e \in scripts[c]} : c \in Categories}
           \cup {{e.ptr : e \in unboundScripts[c]} : c \in UnboundCategories})

\* C7 Deferred deletion safety: an instance the AddScript call of its
\* constructor turns away is alive and queued when the call returns, and a
\* queued instance that no registry stores is destroyed only by a
\* SwapContext call.
C7_DeferredDeletionSafety ==
    [][/\ \A p \in Range(delayedDeleteQueue) \ StoredPointers :
             (heap[p].live /\ ~heap'[p].live)
                => \E initialize \in BOOLEAN : SwapContext(initialize)
       /\ \A cat \in AllCategories : \A name \in NamesOf(cat), al \in BOOLEAN :
             (/\ ConstructScript(cat, name, al)
              /\ status' = "running"
              /\ scripts' = scripts
              /\ unboundScripts' = unboundScripts
              /\ alScripts' = alScripts)
             => \E p \in DOMAIN heap' :
                   /\ delayedDeleteQueue' = Append(delayedDeleteQueue, p)
                   /\ heap'[p] = ScriptObject(name, al)]_vars

\* The AI an entity holds comes from the script the creature registry
\* stores under the entity's script id.
ValidAttachment(e) ==
    ai[e].kind = "script" =>
       [id |-> EntityScriptId(e), ptr |-> ai[e].src] \in scripts["Creature"]

\* C8 No dangling attachment: ReleaseContext leaves no entity of a released
\* id with the AI it had, and SwapContext(false) leaves every entity whose
\* script id was removed (or freshly added) with no AI or with an AI that
\* this call constructed from a stored script or as the default, and every
\* other entity with the AI it had.
C8_NoDanglingAttachment ==
    [][/\ \A context \in Contexts : ReleaseContext(context) =>
             \A e \in world :
                (\E en \in RegisteredUnder("Creature", context) :
                    en.id = EntityScriptId(e)) => ai'[e] = NoAI
       /\ SwapContext(FALSE) =>
             \A e \in world :
                IF EntityScriptId(e) \in idsRemoved \cup recentlyAdded["Creature"]
                THEN ai'[e] = NoAI \/ (ai'[e].fresh /\ ValidAttachment(e)')
                ELSE ai'[e] = Age(ai)[e]]_vars

\* C8 witness: after a release and a SwapContext(false), E1 holds an AI the
\* swap constructed and E2, of an id that was not removed, the AI it had.
C8_Witness ==
    /\ Running
    /\ sinceSwap = "swap"
    /\ \E c \in Contexts : ReleasedScripts(c) # {}
    /\ world = Entities
    /\ ai["E1"].fresh
    /\ ai["E2"].kind = "script" /\ ~ai["E2"].fresh

\* The script id of the entity has a script in the creature registry.
ScriptRegistered(e) ==
    \E en \in scripts["Creature"] : en.id = EntityScriptId(e)

\* C9 Reload scenario, as claimed: after ReleaseContext and SwapContext(false)
\* an entity (with a guid) of a released id holds no AI if the id was not
\* registered again, and a new AI of the replacement script if it was.
C9_ReloadScenarioAsClaimed ==
    [][SwapContext(FALSE) =>
          \A e \in world :
             (EntityScriptId(e) \in idsRemoved /\ ~GuidIsEmpty(e)) =>
                IF ScriptRegistered(e)
                THEN ai'[e] = [kind |-> "script", fresh |-> TRUE,
                               src |-> GetScriptById("Creature",
                                                     EntityScriptId(e))]
                ELSE ai'[e] = NoAI]_vars

\* C9 Reload scenario, amended: after ReleaseContext and SwapContext(false)
\* an entity with a guid whose id was released holds a newly constructed
\* default AI if the id was not registered again, and a new AI of the
\* replacement script if it was; an entity without a guid holds none.
C9_ReloadScenario ==
    [][SwapContext(FALSE) =>
          \A e \in world :
             EntityScriptId(e) \in idsRemoved =>
                IF GuidIsEmpty(e) THEN ai'[e] = NoAI
                ELSE IF ScriptRegistered(e)
                THEN ai'[e] = [kind |-> "script", fresh |-> TRUE,
                               src |-> GetScriptById("Creature",
                                                     EntityScriptId(e))]
                ELSE ai'[e] = [kind |-> "default", fresh |-> TRUE,
                               src |-> NullPtr]]_vars

\* C9 witness: script "A" (id 1) was released and not registered again, and
\* the swap has given E1 a new default AI.
C9_Witness ==
    /\ Running
    /\ sinceSwap = "swap"
    /\ \E c \in Contexts : \E p \in ReleasedScripts(c) : heap[p].name = "A"
    /\ "E1" \in world
    /\ ~ScriptRegistered("E1")
    /\ ai["E1"] = [kind |-> "default", fresh |-> TRUE, src |-> NullPtr]

\* C10 Swap idempotence on empty delta: a SwapContext(false) that follows a
\* SwapContext(false) with no AddScript or ReleaseContext in between changes
\* no script, index entry, recently added id, removed id, queue entry, name
\* entry or script object, and constructs or destroys no AI.
C10_SwapIdempotence ==
    [][(SwapContext(FALSE) /\ sinceSwap \in {"swap", "again"}) =>
          /\ scripts' = scripts
          /\ idsOfContexts' = idsOfContexts
          /\ recentlyAdded' = recentlyAdded
          /\ idsRemoved' = idsRemoved
          /\ delayedDeleteQueue' = delayedDeleteQueue
          /\ scriptnamesToContext' = scriptnamesToContext
          /\ heap' = heap
          /\ ai' = Age(ai)]_vars

\* C10 witness: a second SwapContext(false) in a row has run over a registry
\* that stores a script and a world whose entity holds that script's AI.
C10_Witness ==
    /\ Running
    /\ sinceSwap = "again"
    /\ \E e \in world : ai[e].kind = "script" /\ ValidAttachment(e)

\* Nothing is registered under the context: no registry stores a script that
\* was added under it.
NothingRegistered(context) ==
    /\ \A cat \in Categories : RegisteredUnder(cat, context) = {}
    /\ \A cat \in UnboundCategories :
          \A e \in unboundScripts[cat] : e.context # context

\* C11 ReleaseContext is idempotent: releasing a context that has nothing
\* registered changes no registry storage and ends without an error, and a
\* release leaves a state that releasing the same context again does not
\* change.
C11_ReleaseIdempotent ==
    [][\A context \in Contexts : ReleaseContext(context) =>
          /\ NothingRegistered(context) =>
                /\ status' = "running"
                /\ scripts' = scripts
                /\ unboundScripts' = unboundScripts
                /\ idsOfContexts' = idsOfContexts
                /\ recentlyAdded' = recentlyAdded
                /\ scriptnamesToContext' = scriptnamesToContext
          /\ \A cat \in Categories \cap registries :
                RegistryReleaseContext(cat, context)' = scripts'[cat]
          /\ \A cat \in UnboundCategories \cap registries :
                UnboundReleaseContext(cat, context)' = unboundScripts'[cat]
          /\ EraseScriptNamesOfContext(context)' = scriptnamesToContext']_vars

\* C12 The delayed-delete queue is drained only by the compositum's
\* SwapContext, after every registry's SwapContext has run (the AIs the
\* creature hook creates in that call come from scripts that were alive when
\* the hook ran), and no other operation destroys a queued object.
C12_DrainOnlyInSwap ==
    [][LET swapping == \E initialize \in BOOLEAN : SwapContext(initialize)
       IN  /\ (\E p \in Range(delayedDeleteQueue) :
                  p \notin Range(delayedDeleteQueue')) => swapping
           /\ swapping =>
                 /\ delayedDeleteQueue' = << >>
                 /\ \A e \in world :
                       (ai'[e].kind = "script" /\ ai'[e].fresh)
                          => heap[ai'[e].src].live
           /\ \A p \in Range(delayedDeleteQueue) :
                 (heap[p].live /\ ~heap'[p].live) => swapping]_vars

\* C13 Operation ordering: when ReleaseContext returns, every registered
\* registry has run its pre-release hook and erased the entries of the
\* context, and no swap hook has run in between (nothing is recreated, the
\* recently added ids and the delayed-delete queue are as they were); a
\* SwapContext releases nothing.
C13_OperationOrdering ==
    [][/\ \A context \in Contexts : ReleaseContext(context) =>
             /\ \A cat \in Categories \cap registries :
                   \A e \in scripts'[cat] :
                      e.id \notin GetScriptIDsToRemove(cat, context)
             /\ \A cat \in UnboundCategories \cap registries :
                   \A e \in unboundScripts'[cat] : e.context # context
             /\ "Creature" \in registries =>
                   GetScriptIDsToRemove("Creature", context)
                      \subseteq idsRemoved'
             /\ recentlyAdded' = recentlyAdded
             /\ delayedDeleteQueue' = delayedDeleteQueue
             /\ \A e \in Entities : ai'[e] \in {ai[e], NoAI}
       /\ \A initialize \in BOOLEAN : SwapContext(initialize) =>
             /\ scripts' = scripts
             /\ unboundScripts' = unboundScripts
             /\ idsOfContexts' = idsOfContexts]_vars

\* C13 witness: a release has erased the scripts of one context from an
\* identifier-bound and from an unbound registry, and no swap has run yet.
C13_Witness ==
    /\ Running
    /\ idsRemoved # {}
    /\ \A cat \in Categories : scripts[cat] = {}
    /\ \A cat \in UnboundCategories : unboundScripts[cat] = {}
    /\ \E p, q \in DOMAIN heap :
          /\ heap[p].name \in Names /\ heap[q].name \in NamesOf("WorldMap")
          /\ ~heap[p].live /\ ~heap[q].live
          /\ heap[p].ctx = heap[q].ctx /\ heap[p].ctx # NoContext

\* C14 In every reachable state of an identifier-bound registry every id in
\* the recently added ids has a script stored under it, also after a context
\* is released before the swap that follows its registrations.
C14_RecentlyAddedStored ==
    Running =>
       \A cat \in Categories :
          \A id \in recentlyAdded[cat] : GetScriptById(cat, id) # NullPtr

\* C15 SwapContext clears the recently added ids: after SwapContext, for
\* either value of initialize, no identifier-bound registry has a recently
\* added id, and the hook ran before the clearing: in a swap that is not the
\* initial one every creature with a guid whose script id was recently added
\* leaves the call with an AI created in it.
C15_SwapClearsRecentlyAdded ==
    [][\A initialize \in BOOLEAN : SwapContext(initialize) =>
          /\ \A cat \in Categories : recentlyAdded'[cat] = {}
          /\ ~initialize =>
                \A e \in world :
                   (/\ ~GuidIsEmpty(e)
                    /\ EntityScriptId(e) \in recentlyAdded["Creature"])
                   => ai'[e] = AIM_Create(e)]_vars

\* C15 witness: a swap has given a creature the AI of a script added since
\* the swap before (nothing was released), and the recently added ids are
\* empty.
C15_Witness ==
    /\ Running
    /\ sinceSwap = "swap"
    /\ \A cat \in Categories : recentlyAdded[cat] = {}
    /\ \A p \in DOMAIN heap : heap[p].live
    /\ \E e \in world :
          /\ ai[e].kind = "script" /\ ai[e].fresh
          /\ GetScriptById("Creature", EntityScriptId(e)) = ai[e].src

\* The storage of the registries and of the compositum.
Storage ==
    <<scripts, unboundScripts, idsOfContexts, recentlyAdded, alScripts,
      delayedDeleteQueue, scriptnamesToContext>>

\* C16 AddScript outside a context: while no context is open, an AddScript
\* call on any registry, identifier-bound or unbound, made by a constructor
\* or by the replay of AddALScripts, stops the process with the assertion on
\* the current context and leaves every registry storage as it was.
C16_AddOutsideContext ==
    [][currentContext = NoContext =>
          /\ \A cat \in AllCategories : \A name \in NamesOf(cat), al \in BOOLEAN :
                ConstructScript(cat, name, al) =>
                   status' = "assert_no_context" /\ Storage' = Storage
          /\ \A cat \in AllCategories :
                (AddALScripts(cat) /\ alScripts[cat] # << >>) =>
                   status' = "assert_no_context" /\ Storage' = Storage]_vars

\* C16 witness: a registry stores a script, the context has been closed by a
\* swap, and the constructor of a second script has stopped at the assertion.
C16_Witness ==
    /\ status = "assert_no_context"
    /\ currentContext = NoContext
    /\ \E cat \in Categories : scripts[cat] # {}
    /\ \E p \in DOMAIN heap : heap[p].live /\ heap[p].ctx = NoContext

\* C17 AddScript of a script whose name has no id: the instance is appended
\* to the delayed-delete queue alive, the process continues, and _scripts,
\* the context index, the recently added ids and the name map are unchanged.
C17_UnassignedNameQueued ==
    [][\A cat \in Categories : \A name \in NamesOf(cat), al \in BOOLEAN :
          (/\ ConstructScript(cat, name, al)
           /\ currentContext # NoContext
           /\ GetScriptId(name) = NoId)
          => /\ status' = "running"
             /\ \E p \in DOMAIN heap' :
                   /\ delayedDeleteQueue' = Append(delayedDeleteQueue, p)
                   /\ heap'[p] = ScriptObject(name, al)
             /\ scripts' = scripts
             /\ idsOfContexts' = idsOfContexts
             /\ recentlyAdded' = recentlyAdded
             /\ scriptnamesToContext' = scriptnamesToContext]_vars

\* C17 witness: next to a stored script, an instance whose name has no id
\* waits alive in the delayed-delete queue.
C17_Witness ==
    /\ Running
    /\ \E cat \in Categories : scripts[cat] # {}
    /\ \E p \in DOMAIN heap :
          /\ delayedDeleteQueue = <<p>>
          /\ heap[p].live
          /\ GetScriptId(heap[p].name) = NoId

\* The registry of the category stores the pointer.
StoredIn(cat, ptr) ==
    IF cat \in Categories
    THEN \E e \in scripts[cat] : e.ptr = ptr
    ELSE \E e \in unboundScripts[cat] : e.ptr = ptr

\* C18 Post-load deferral: AddScript buffers a script that asks for post-load
\* registration in _alScripts instead of inserting it, and AddALScripts
\* replays the buffer once, in order, after which every buffered script is
\* stored in _scripts and the buffer is empty.
C18_PostLoadDeferral ==
    [][\A cat \in AllCategories :
          /\ \A name \in NamesOf(cat) :
                (/\ ConstructScript(cat, name, TRUE)
                 /\ alScripts' # alScripts)
                => /\ \E p \in DOMAIN heap' :
                         /\ alScripts'[cat] = Append(alScripts[cat], p)
                         /\ heap'[p].name = name
                   /\ scripts' = scripts
                   /\ unboundScripts' = unboundScripts
          /\ (AddALScripts(cat) /\ status' = "running")
                => /\ alScripts'[cat] = << >>
                   /\ \A p \in Range(alScripts[cat]) : StoredIn(cat, p)']_vars

\* C19 The delayed-delete queue has no duplicates: in every reachable state
\* no object is referenced by two entries of the queue, also when the same
\* pointer reaches AddScript several times.
C19_QueueNoDuplicates ==
    Running =>
       \A i, j \in DOMAIN delayedDeleteQueue :
          i # j => delayedDeleteQueue[i] # delayedDeleteQueue[j]

\* The number of owners of the object at ptr: the entries of the registries'
\* _scripts and of the delayed-delete queue that hold it.
Owners(ptr) ==
    Cardinality({x \in Categories \X UNION {scripts[c] : c \in Categories} :
                    x[2] \in scripts[x[1]] /\ x[2].ptr = ptr})
    + Cardinality({x \in UnboundCategories
                          \X UNION {unboundScripts[c] : c \in UnboundCategories} :
                      x[2] \in unboundScripts[x[1]] /\ x[2].ptr = ptr})
    + Cardinality({i \in DOMAIN delayedDeleteQueue :
                      delayedDeleteQueue[i] = ptr})

\* C20 Exclusive ownership: in every reachable state each live script
\* instance has exactly one owner, one registry entry or one entry of the
\* delayed-delete queue, never both.
C20_ExclusiveOwnership ==
    Running => \A p \in DOMAIN heap : heap[p].live => Owners(p) = 1

\* The AIs without the history of when they were made.
Attached(a) == [e \in Entities |-> [kind |-> a[e].kind, src |-> a[e].src]]

\* C21 Hook idempotence: for the hook of every kind, BeforeReleaseContext of
\* the context just released, called again, changes neither the hook's state
\* nor the world, and BeforeSwapContext called a second time in a row leaves
\* what the first call left.
C21_HookIdempotence ==
    [][/\ \A context \in Contexts :
             (ReleaseContext(context) /\ status' = "running") =>
                /\ "Creature" \in registries =>
                      CreatureBeforeReleaseContext(context)'
                         = [ai |-> ai', idsRemoved |-> idsRemoved']
                /\ "Battleground" \in registries =>
                      ~UnsupportedReleaseAsserts("Battleground", context)'
                /\ "OutdoorPvP" \in registries =>
                      OutdoorPvPBeforeReleaseContext(context)'
                         = [swapped |-> swapped'["OutdoorPvP"],
                            mgr |-> outdoorPvPMgr']
                /\ \A cat \in {"InstanceMap", "SpellScriptLoader"} \cap registries :
                      FlagBeforeReleaseContext(cat, context)' = swapped'[cat]
                /\ "Command" \in registries =>
                      InvalidateCommandTable = commandTable'
       /\ \A initialize \in BOOLEAN :
             (SwapContext(initialize) /\ status' = "running") =>
                /\ "Creature" \in registries =>
                      LET once == CreatureBeforeSwapContext(initialize)
                          twice == CreatureSwapHook(once.ai, once.idsRemoved,
                                      recentlyAdded["Creature"], initialize)
                      IN  /\ twice.idsRemoved = once.idsRemoved
                          /\ Attached(twice.ai) = Attached(once.ai)
                /\ "OutdoorPvP" \in registries =>
                      OutdoorPvPBeforeSwapContext(initialize)'
                         = [swapped |-> swapped'["OutdoorPvP"],
                            mgr |-> outdoorPvPMgr']
                /\ \A cat \in {"InstanceMap", "SpellScriptLoader"} \cap registries :
                      FlagBeforeSwapContext(cat, initialize) = swapped'[cat]
                /\ "Command" \in registries =>
                      InvalidateCommandTable = commandTable']_vars

\* C21 witness: a release has run the hooks of two kinds: the outdoor PvP
\* manager is torn down and the spell script hook holds its flag.
C21_Witness ==
    /\ Running
    /\ outdoorPvPMgr = "dead"
    /\ swapped["OutdoorPvP"]
    /\ swapped["SpellScriptLoader"]

\* The storage of one identifier-bound registry.
RegistryStorage(cat) ==
    <<scripts[cat], idsOfContexts[cat], recentlyAdded[cat], alScripts[cat]>>

\* C22 Rejecting hook: with the battleground registry registered,
\* ReleaseContext(c) stops the process with the assertion of the rejecting
\* hook whenever the registry's context index holds an id for c, and leaves
\* the registry's storage as it was when the index holds none.
C22_RejectingHook ==
    [][\A context \in Contexts :
          (ReleaseContext(context) /\ "Battleground" \in registries) =>
             IF \E id \in Ids :
                   BagIn(<<context, id>>, idsOfContexts["Battleground"])
             THEN status' = "assert_unsupported_release"
             ELSE /\ status' # "assert_unsupported_release"
                  /\ RegistryStorage("Battleground")'
                        = RegistryStorage("Battleground")]_vars

\* C22 witness: the release of a context with a battleground script has
\* stopped the process.
C22_Witness ==
    /\ status = "assert_unsupported_release"
    /\ \E context \in Contexts :
          GetScriptIDsToRemove("Battleground", context) # {}

\* The registry has ids removed by a ReleaseContext that no swap has
\* completed, or ids added since the last swap.
HalfReleased(cat) ==
    \/ cat = "Creature" /\ idsRemoved # {}
    \/ cat \in SwappedCategories /\ swapped[cat]
    \/ recentlyAdded[cat] # {}

\* C23 as stated: Unload with a half-released registry stops the process
\* with an assertion and nothing of any registry has been cleared.
C23_UnloadClearsNothing ==
    [][(Unload /\ \E cat \in Categories : HalfReleased(cat)) =>
          /\ status' = "assert_unload"
          /\ Storage' = Storage]_vars

\* C23 Unload with a half-released context is fatal: when a registry has
\* removed ids no swap has completed (the creature removed-id set, a swapped
\* flag) or recently added ids, Unload stops the process with an assertion
\* and that registry's storage is as it was; registries visited before it
\* may have been cleared.
C23_HalfReleasedUnloadFatal ==
    [][(Unload /\ \E cat \in Categories : HalfReleased(cat)) =>
          /\ status' = "assert_unload"
          /\ \A cat \in Categories :
                HalfReleased(cat) =>
                   RegistryStorage(cat)' = RegistryStorage(cat)]_vars

\* C23 witness: Unload has hit the assertion of the creature hook, whose
\* registry still holds the script of another context.
C23_Witness ==
    /\ status = "assert_unload"
    /\ idsRemoved # {}
    /\ recentlyAdded["Creature"] = {}
    /\ scripts["Creature"] # {}

\* C24 Unload clears all storage: after an Unload that went through, the
\* scripts, context index, recently added ids and scripts waiting for
\* AddALScripts of every registry are empty, and GetScriptById gives nullptr
\* for every id.
C24_UnloadClearsAllStorage ==
    [][(Unload /\ status' = "unloaded") =>
          /\ \A cat \in Categories :
                /\ scripts'[cat] = {}
                /\ idsOfContexts'[cat] = EmptyBag
                /\ recentlyAdded'[cat] = {}
                /\ \A id \in Ids : GetScriptById(cat, id)' = NullPtr
          /\ \A cat \in UnboundCategories : unboundScripts'[cat] = {}
          /\ \A cat \in AllCategories : alScripts'[cat] = << >>]_vars

\* C25 Lookups are read-only: GetScriptById changes neither scripts, context
\* index, recently added ids, name map nor delayed-delete queue, does not
\* stop the process, and gives nullptr for an id the registry stores no
\* script for, also while another category is between ReleaseContext and
\* SwapContext.
C25_LookupsReadOnly ==
    [][\A cat \in LookupCategories, id \in LookupIds :
          Lookup(cat, id) =>
             /\ UNCHANGED <<scripts, idsOfContexts, recentlyAdded,
                            scriptnamesToContext, delayedDeleteQueue>>
             /\ status' = "running"
             /\ (\A e \in scripts[cat] : e.id # id) => found' = <<NullPtr>>
             /\ \A e \in scripts[cat] : e.id = id => found' = <<e.ptr>>]_vars

\* C25 witness: a lookup has found nothing while the outdoor PvP registry
\* is between its release and its swap and the creature registry holds a
\* script.
C25_Witness ==
    /\ found = <<NullPtr>>
    /\ swapped["OutdoorPvP"]
    /\ scripts["Creature"] # {}

\* C26 Name-to-context query: a script name registered in an identifier-bound
\* registry under context c is answered with c from the registration on and
\* as long as c is not released; once ReleaseContext(c) has returned no name
\* is answered with c; the query for a name without an entry stops the
\* process with an assertion.
C26_NameToContextQuery ==
    [][/\ \A cat \in Categories : \A e \in scripts'[cat] \ scripts[cat] :
             \A scriptname \in NamesOf(cat) :
                (status' = "running" /\ heap'[e.ptr].name = scriptname) =>
                   ScriptContextOfScriptName(scriptname)' = <<currentContext>>
       /\ \A scriptname \in Names, context \in Contexts :
             (/\ ScriptContextOfScriptName(scriptname) = <<context>>
              /\ ~ReleaseContext(context))
                => ScriptContextOfScriptName(scriptname)' = <<context>>
       /\ \A scriptname \in Names, context \in Contexts :
             (ReleaseContext(context) /\ status' = "running")
                => ScriptContextOfScriptName(scriptname)' # <<context>>
       /\ \A scriptname \in QueryNames :
             GetScriptContextOfScriptName(scriptname) =>
                IF \E n \in scriptnamesToContext : n.name = scriptname
                THEN /\ status' = "running"
                     /\ [name |-> scriptname, context |-> found'[1]]
                           \in scriptnamesToContext
                ELSE status' = "assert_scriptname"]_vars

\* C26 witness: after a context has been released, the query for the name of
\* a script of the other context has answered with that context.
C26_Witness ==
    /\ Running
    /\ \E context \in Contexts :
          /\ found = <<context>>
          /\ \E p \in DOMAIN heap :
                /\ ~heap[p].live
                /\ heap[p].ctx \notin {NoContext, context}

\* C27 as stated: SwapContext(false) gives every entity in the world that
\* has no AI, or whose AI the call destroys, a newly constructed AI,
\* whatever its script id.
C27_RecreateEveryEmpty ==
    [][SwapContext(FALSE) =>
          \A e \in world :
             (\/ ai[e] = NoAI
              \/ EntityScriptId(e) \in idsRemoved \cup recentlyAdded["Creature"])
                => (ai'[e] # NoAI /\ ai'[e].fresh)]_vars

\* C27 Recreate pass coverage, amended: SwapContext(false) gives every entity
\* in the world that has a guid and whose script id was removed since the
\* last swap or recently added a newly constructed AI made from its current
\* id; an entity without AI whose script id is not among those ids stays
\* without.
C27_RecreateCoverage ==
    [][SwapContext(FALSE) =>
          \A e \in world :
             IF EntityScriptId(e) \in idsRemoved \cup recentlyAdded["Creature"]
             THEN ~GuidIsEmpty(e) =>
                     /\ ai'[e].fresh
                     /\ ai'[e].src = GetScriptById("Creature", EntityScriptId(e))
                     /\ ai'[e].kind = IF ScriptRegistered(e) THEN "script"
                                      ELSE "default"
             ELSE ai[e] = NoAI => ai'[e] = NoAI]_vars

\* C27 witness: a swap has built the AI of E1 anew from the script stored
\* under its id while E2, in the world as well, holds the AI it had.
C27_Witness ==
    /\ Running
    /\ sinceSwap = "swap"
    /\ world = Entities
    /\ ai["E1"].fresh
    /\ ai["E1"].kind = "script"
    /\ ai["E1"].src = GetScriptById("Creature", EntityScriptId("E1"))
    /\ ~ai["E2"].fresh

\* C28 Detach on release: when ReleaseContext(c) returns, every entity in
\* the world whose script id has a script registered under c is without AI;
\* the AIs are the ones BeforeReleaseContext leaves, and the script an AI
\* came from was the one the registry held when the hook ran and has erased
\* since.
C28_DetachOnRelease ==
    [][\A context \in Contexts :
          (ReleaseContext(context) /\ "Creature" \in registries
              /\ status' = "running") =>
             /\ ai' = CreatureBeforeReleaseContext(context).ai
             /\ \A e \in world :
                   \A en \in RegisteredUnder("Creature", context) :
                      en.id = EntityScriptId(e) =>
                         /\ ai'[e] = NoAI
                         /\ en \notin scripts'["Creature"]
                         /\ ~heap'[en.ptr].live
                         /\ ai[e].kind = "script" => ai[e].src = en.ptr]_vars

\* C28 witness: the script of E1's id was released and E1, in the world, is
\* without AI until the swap.
C28_Witness ==
    /\ Running
    /\ sinceSwap = "none"
    /\ "E1" \in world
    /\ EntityScriptId("E1") \in idsRemoved
    /\ ai["E1"] = NoAI
    /\ \E c \in Contexts : \E p \in ReleasedScripts(c) : heap[p].name = "A"

\* C29 Every destroyed AI is replaced: an entity in the world whose AI the
\* destroy pass of SwapContext(false) destroys (it has an AI and its script
\* id was removed since the last swap or recently added) has an AI when the
\* call returns, with or without a guid.
C29_DestroyedIsRecreated ==
    [][(SwapContext(FALSE) /\ status' = "running") =>
          \A e \in world :
             (/\ ai[e] # NoAI
              /\ EntityScriptId(e) \in idsRemoved \cup recentlyAdded["Creature"])
                => ai'[e] # NoAI]_vars

\* C30 No entity swap on initial load: SwapContext(true) leaves every
\* entity with the AI it had, and the removed ids of the creature hook as
\* they were (neither the destroy nor the recreate pass runs), and leaves
\* the outdoor PvP manager and the flag of its hook as they were.
C30_NoSwapOnInitialLoad ==
    [][SwapContext(TRUE) =>
          /\ ai' = Age(ai)
          /\ idsRemoved' = idsRemoved
          /\ outdoorPvPMgr' = outdoorPvPMgr
          /\ swapped'["OutdoorPvP"] = swapped["OutdoorPvP"]]_vars

\* C30 witness: after the release of a creature script and an outdoor PvP
\* script, an initial swap has left E1 without AI and the manager torn
\* down.
C30_Witness ==
    /\ Running
    /\ sinceSwap = "initialize"
    /\ outdoorPvPMgr = "dead"
    /\ swapped["OutdoorPvP"]
    /\ idsRemoved # {}
    /\ "E1" \in world
    /\ ai["E1"] = NoAI

\* C31 Swap always ends the release cycle: after every SwapContext call,
\* initial or not, the removed ids of the creature hook are empty and no
\* hook holds its swapped flag, so that no BeforeUnload assertion can fail
\* in an Unload that follows.
C31_SwapEndsReleaseCycle ==
    [][\A initialize \in BOOLEAN :
          (SwapContext(initialize) /\ status' = "running") =>
             /\ idsRemoved' = {}
             /\ \A cat \in SwappedCategories : ~swapped'[cat]]_vars

FirstCall(cl, call) ==
    IF \E i \in 1..Len(cl) : cl[i] = call
    THEN CHOOSE i \in 1..Len(cl) :
            cl[i] = call /\ \A j \in 1..(i - 1) : cl[j] # call
    ELSE 0

C34_ReEnterPass ==
    [][\A e \in world :
          FirstCall(calls'[e], "AIM_Create") # 0 =>
             LET cl == calls'[e]
                 create == FirstCall(cl, "AIM_Create")
             IN  /\ ai'[e] # NoAI /\ ai'[e].fresh
                 /\ SubSeq(cl, create + 1, Len(cl))
                       = IF unit[e].alive
                         THEN <<"AI_InitializeAndEnable", "EnterEvadeMode",
                                "AddEvent">>
                         ELSE << >>
                 /\ \A i \in 1..Len(cl) : cl[i] # "CastSpell"]_vars

\* C34 witness: a swap has destroyed the AI of the living E1, given it a
\* new one and taken it through the re-enter pass.
C34_Witness ==
    /\ Running
    /\ calls["E1"] = <<"KillAllEvents", "EnterEvadeMode", "AIM_Destroy",
                       "ClearUnitState", "AIM_Create",
                       "AI_InitializeAndEnable", "EnterEvadeMode", "AddEvent">>
    /\ unit["E1"].alive
    /\ ai["E1"].fresh

\* C35 Singleton-restart hook: Die is called on the outdoor PvP manager only
\* by a ReleaseContext of a context the registry's index has ids for, and
\* only while the manager is not torn down; InitOutdoorPvP only by a
\* SwapContext(false), and only while it is torn down; a step makes at most
\* one of the calls and the manager changes with them only, so that the
\* calls alternate, Die first.
C35_DieInitAlternate ==
    [][LET mgr == calls'["sOutdoorPvPMgr"]
       IN  /\ Len(mgr) <= 1
           /\ mgr = <<"Die">> =>
                 /\ outdoorPvPMgr = "initialized"
                 /\ outdoorPvPMgr' = "dead"
                 /\ \E context \in Contexts :
                       /\ ReleaseContext(context)
                       /\ GetScriptIDsToRemove("OutdoorPvP", context) # {}
           /\ mgr = <<"InitOutdoorPvP">> =>
                 /\ outdoorPvPMgr = "dead"
                 /\ outdoorPvPMgr' = "initialized"
                 /\ SwapContext(FALSE)
           /\ mgr = << >> => outdoorPvPMgr' = outdoorPvPMgr
           /\ mgr \in {<< >>, <<"Die">>, <<"InitOutdoorPvP">>}]_vars

\* C35 witness: the manager, torn down by a release, has just been set up
\* again by a swap.
C35_Witness ==
    /\ Running
    /\ calls["sOutdoorPvPMgr"] = <<"InitOutdoorPvP">>
    /\ outdoorPvPMgr = "initialized"
    /\ ~swapped["OutdoorPvP"]

\* C36 The current context changes only by SetScriptContext and by
\* SwapContext; every SwapContext leaves it empty; a script constructed
\* while it is empty stops at the no-open-context assertion and nothing is
\* stored; and every entry a step adds to a registry is tagged with the
\* context that was current in that step: the script object, the context
\* index and the name map for an identifier-bound registry, the bucket for
\* a context-bound one.
C36_SwapClosesContext ==
    [][/\ \A initialize \in BOOLEAN :
             SwapContext(initialize) => currentContext' = NoContext
       /\ currentContext' # currentContext =>
             \/ \E context \in Contexts : SetScriptContext(context)
             \/ \E initialize \in BOOLEAN : SwapContext(initialize)
       /\ \A cat \in AllCategories : \A name \in NamesOf(cat), al \in BOOLEAN :
             (ConstructScript(cat, name, al) /\ currentContext = NoContext) =>
                 /\ status' = "assert_no_context"
                 /\ scripts' = scripts /\ unboundScripts' = unboundScripts
       /\ \A cat \in Categories : \A e \in scripts'[cat] \ scripts[cat] :
             /\ currentContext # NoContext
             /\ heap'[e.ptr].ctx = currentContext
             /\ CopiesIn(<<currentContext, e.id>>, idsOfContexts'[cat])
                   = CopiesIn(<<currentContext, e.id>>, idsOfContexts[cat]) + 1
             /\ status' = "running" =>
                   [name |-> heap'[e.ptr].name, context |-> currentContext]
                      \in scriptnamesToContext'
       /\ \A cat \in UnboundCategories :
             \A e \in unboundScripts'[cat] \ unboundScripts[cat] :
                /\ currentContext # NoContext
                /\ e.context = currentContext
                /\ heap'[e.ptr].ctx = currentContext]_vars

\* C36 witness: a script registered under mod1 is stored, a swap has run
\* since and has left the current context empty.
C36_Witness ==
    /\ Running
    /\ currentContext = NoContext
    /\ sinceSwap \in {"swap", "initialize"}
    /\ \E e \in scripts["Creature"] :
          /\ heap[e.ptr].ctx = "mod1"
          /\ CopiesIn(<<"mod1", e.id>>, idsOfContexts["Creature"]) > 0

\* C37 Every pointer in a post-load buffer refers to a script object that is
\* alive and that the delayed-delete queue does not hold, from the AddScript
\* that buffered it until AddALScripts replays it.
C37_BufferedScriptsLive ==
    Running =>
       \A cat \in AllCategories : \A i \in DOMAIN alScripts[cat] :
          /\ heap[alScripts[cat][i]].live
          /\ alScripts[cat][i] \notin Range(delayedDeleteQueue)

\* C38 Name map agrees with the registries: in every reachable state of the
\* running process a script name has an entry in _scriptnames_to_context if
\* and only if some identifier-bound registry stores a script of that name.
C38_NameMapAgrees ==
    Running =>
       \A cat \in Categories : \A name \in NamesOf(cat) :
          ScriptNameAssigned(scriptnamesToContext, name)
             <=> \E c \in Categories : StoredWithName(scripts[c], heap, name) # {}

\* C39 Context-bound release is wholesale and isolated: a ReleaseContext(c)
\* step leaves in every context-bound registry exactly the entries of the
\* other contexts, destroys every script it stored under c and leaves the
\* script objects stored under the other contexts as they were.
C39_WholesaleIsolatedRelease ==
    [][\A context \in Contexts : ReleaseContext(context) =>
          \A cat \in UnboundCategories \cap registries :
             /\ unboundScripts'[cat]
                   = {e \in unboundScripts[cat] : e.context # context}
             /\ \A e \in unboundScripts[cat] :
                   IF e.context = context
                   THEN ~heap'[e.ptr].live
                   ELSE heap'[e.ptr] = heap[e.ptr]]_vars

\* C39 witness: the world-map registry stored one script under each context
\* and a release of mod1 has destroyed the one and kept the other.
C39_Witness ==
    /\ Running
    /\ sinceSwap = "none"
    /\ \E e \in unboundScripts["WorldMap"] :
          e.context = "mod2" /\ heap[e.ptr].live
    /\ \A e \in unboundScripts["WorldMap"] : e.context # "mod1"
    /\ \E p \in DOMAIN heap :
          /\ heap[p].name \in NamesOf("WorldMap")
          /\ heap[p].ctx = "mod1" /\ ~heap[p].al /\ ~heap[p].live

\* C40 Spell-loader hook: ValidateSpellScripts is called only in a
\* SwapContext step, at most once per step, and in such a step exactly when
\* the hook's flag is set, whatever the value of initialize; the flag is set
\* by a ReleaseContext of a context the spell-loader index has ids for,
\* cleared by every SwapContext and changed by nothing else, so that it is
\* set exactly when such a context was released since the previous swap.
C40_SpellValidation ==
    [][LET validated == calls'["sObjectMgr"]
           flag == swapped["SpellScriptLoader"]
       IN  /\ validated \in {<< >>, <<"ValidateSpellScripts">>}
           /\ validated # << >> =>
                 \E initialize \in BOOLEAN : SwapContext(initialize)
           /\ \A initialize \in BOOLEAN : SwapContext(initialize) =>
                 /\ validated # << >> <=> flag
                 /\ ~swapped'["SpellScriptLoader"]
           /\ \A context \in Contexts :
                 (ReleaseContext(context) /\ status' = "running") =>
                    swapped'["SpellScriptLoader"]
                       = (flag \/ GetScriptIDsToRemove("SpellScriptLoader",
                                                       context) # {})
           /\ swapped'["SpellScriptLoader"] # flag =>
                 \/ \E context \in Contexts : ReleaseContext(context)
                 \/ \E initialize \in BOOLEAN : SwapContext(initialize)]_vars

\* C40 witness: the spell scripts have just been validated by an initial
\* swap that followed the release of a spell script's context.
C40_Witness ==
    /\ Running
    /\ calls["sObjectMgr"] = <<"ValidateSpellScripts">>
    /\ sinceSwap = "initialize"
    /\ ~swapped["SpellScriptLoader"]

====
